---- MODULE Spec2Model ----
(***************************************************************************)
(* Model of the VOD relay engine of backend/main.py: the three global      *)
(* dictionaries (active_streams, user_stream_status, user_vod_queues), the *)
(* routes /api/stream/start, /api/stream/stop and /api/stream_status, and  *)
(* the worker thread stream_vods_thread, one step per blocking call or     *)
(* shared-dictionary access.  The route handlers are coroutines of one     *)
(* event loop: they are atomic with respect to each other except across    *)
(* an await; the worker threads interleave with everything.                *)
(***************************************************************************)
EXTENDS Integers, Sequences, FiniteSets, TLC

\* ---------------------------------------------------------------- bounds
MaxThreads == 2     \* worker threads that may be alive at the same time
MaxUrls == 2        \* longest vod_urls list of a start request
MaxChunks == 2      \* most 4096-byte chunks one decode process emits

\* ---------------------------------------------------------------- inputs
Owners == {"u1"}
Workers == 1..MaxThreads
None == "None"
NoWorker == 0

\* Source pages a request may name.  "A" exposes no streams, "B" has the
\* requested quality and "best", "C" only "best".
VodUrls == {"A", "B", "C"}
RunQualities == {"720p"}
StreamKeys == {"", "sk"}

\* ------------------------------------------------- the resolver (streamlink)
\* streamlink.streams(url): the mapping quality label -> stream URL, or a
\* raised exception.
Raises(url) == url = "E"
Streams(url) ==
    CASE url = "B" -> ("720p" :> "B_720p") @@ ("best" :> "B_best")
      [] url = "C" -> ("best" :> "C_best")
      [] url = "D" -> ("480p" :> "D_480p")
      [] url = "G" -> ("480p" :> "G_480p") @@ ("best" :> "G_best")
      [] url = "H" -> ("720p" :> "H_720p")
      [] OTHER -> << >>

\* Line 324 testing 'best' before the quality asked for.
ResolveUrlBestFirst(url, quality) ==
    IF Raises(url) THEN None
    ELSE IF "best" \in DOMAIN Streams(url) THEN Streams(url)["best"]
    ELSE IF quality \in DOMAIN Streams(url) THEN Streams(url)[quality]
    ELSE None

\* Lines 319-326: the quality asked for, else "best", else nothing (None).
ResolveUrl(url, quality) ==
    IF Raises(url) THEN None
    ELSE IF quality \in DOMAIN Streams(url) THEN Streams(url)[quality]
    ELSE IF "best" \in DOMAIN Streams(url) THEN Streams(url)["best"]
    ELSE None

\* The stream URLs of a whole list, in list order, failures left out: what
\* the loop of lines 317-334 puts into the queue.
RECURSIVE ResolveAll(_, _)
ResolveAll(urls, quality) ==
    IF urls = << >> THEN << >>
    ELSE LET m == ResolveUrl(Head(urls), quality)
         IN  (IF m = None THEN << >> ELSE << m >>) \o ResolveAll(Tail(urls), quality)

\* The vod_urls lists of the requests: up to MaxUrls distinct pages.
UrlLists ==
    {l \in UNION {[1..n -> VodUrls] : n \in 0..MaxUrls} :
        \A i, j \in DOMAIN l : l[i] = l[j] => i = j}

IsPrefix(s, t) == Len(s) <= Len(t) /\ SubSeq(t, 1, Len(s)) = s

\* ------------------------------------------------------- status records
Parado == [status |-> "Parado", current_vod |-> "Nenhum"]
Iniciando == [status |-> "Transmitindo", current_vod |-> "Iniciando"]
Erro(diag) == [status |-> "Erro", current_vod |-> diag]
\* The owner has no entry in user_stream_status.
NoStatus == [status |-> "Absent", current_vod |-> "Absent"]
\* An owner's entry of user_vod_queues: absent until a worker creates it.
NoQueue == [exists |-> FALSE, items |-> << >>]
\* No get_stream_status call is suspended for the owner.
NoCall == [pending |-> FALSE, cur |-> NoStatus, aliased |-> FALSE]

\* ---------------------------------------------------------------- state
VARIABLES
    active_streams,      \* owner -> worker whose publish process is registered, or NoWorker
    user_stream_status,  \* owner -> status record, NoStatus when the key is absent
    user_vod_queues,     \* owner -> queue of stream URLs, NoQueue when the key is absent
    wk,                  \* worker -> its locals and position in stream_vods_thread;
                         \* played, failedAt, spawns and stopped record what it
                         \* has done (items taken, item of the first failed write,
                         \* publish processes spawned) and whether a stop request
                         \* took its publish handle
    pub,                 \* worker -> state of the publish process it spawned
    dec,                 \* worker -> state of its current decode process
    statusCall,          \* owner -> the get_stream_status call suspended at its await
    twitch,              \* owner -> what the platform's streams endpoint answers
    resp,                \* the response of the route that returned in the last step
    stdout               \* the lines the last step printed

vars == << active_streams, user_stream_status, user_vod_queues, wk, pub, dec,
           statusCall, twitch, resp, stdout >>

\* A printed line is the sequence of the pieces its f-string joins; stdout
\* holds the lines of one step in order.
NoLines == << >>
\* Line 307: rtmp_url.
RtmpUrl(key) == << "rtmp://live.twitch.tv/app/", key >>

\* noUrls and noKey say what a start request carried: an empty vod_urls, an
\* empty stream_key.
NoResp == [op |-> "none", owner |-> None, code |-> 0, detail |-> None,
           body |-> NoStatus, w |-> NoWorker, noUrls |-> FALSE, noKey |-> FALSE]

IdleWorker == [pc |-> "idle", owner |-> None, urls |-> << >>, quality |-> None,
               key |-> None, idx |-> 1, left |-> 0, exc |-> None,
               fin |-> NoWorker, played |-> << >>, failedAt |-> 0,
               stopped |-> FALSE, spawns |-> 0]

\* A thread that has returned ("done") or was ended by an exception
\* ("died"): its locals are gone.
Ended(w, pc) == [IdleWorker EXCEPT !.pc = pc, !.owner = wk[w].owner]

Init ==
    /\ active_streams = [o \in Owners |-> NoWorker]
    /\ user_stream_status = [o \in Owners |-> NoStatus]
    /\ user_vod_queues = [o \in Owners |-> NoQueue]
    /\ wk = [w \in Workers |-> IdleWorker]
    /\ pub = [w \in Workers |-> "none"]
    /\ dec = [w \in Workers |-> "none"]
    /\ statusCall = [o \in Owners |-> NoCall]
    /\ twitch = [o \in Owners |-> "offline"]
    /\ resp = NoResp
    /\ stdout = NoLines


\* ------------------------------------------------------ external processes
\* A decode process is "running" from its spawn until it has been waited
\* for, "none" otherwise.
\* A publish process is "running", "term" (SIGTERM delivered), "eof" (its
\* input was closed by the worker), "closing" (it has closed its descriptors
\* on the way out but is not yet waitable), "exited" (a zombie) or "reaped".
PollIsNone(p) == p \in {"running", "term", "eof", "closing"}
PipeOpen(p) == p \in {"running", "term"}

\* Popen.poll() reaps a process that has exited.
Polled(pubs, w) ==
    IF w # NoWorker /\ pubs[w] = "exited" THEN [pubs EXCEPT ![w] = "reaped"] ELSE pubs

\* Popen.terminate() on a process whose poll() is None.
Terminated(pubs, w) ==
    IF pubs[w] = "running" THEN [pubs EXCEPT ![w] = "term"] ELSE pubs

\* "user_id in active_streams and active_streams[user_id].poll() is None"
StreamAlive(o) ==
    active_streams[o] # NoWorker /\ PollIsNone(pub[active_streams[o]])

\* --------------------------------------------- writes to user_stream_status
\* A get_stream_status call suspended at its await holds a reference to the
\* dictionary it read: cur is its content, aliased says whether it is still
\* the object stored in user_stream_status.
\* user_stream_status[user_id] = {...}: a new dictionary replaces the old.
ReplaceStatus(o, rec) ==
    /\ user_stream_status' = [user_stream_status EXCEPT ![o] = rec]
    /\ statusCall' = IF ~statusCall[o].pending THEN statusCall
                     ELSE [statusCall EXCEPT ![o].aliased = FALSE]

\* user_stream_status[user_id]["current_vod"] = v: the stored dictionary is
\* changed in place, and so is every reference to it.
MutateVod(o, v) ==
    /\ user_stream_status' = [user_stream_status EXCEPT ![o].current_vod = v]
    /\ statusCall' = IF ~statusCall[o].pending THEN statusCall
                     ELSE IF statusCall[o].aliased
                          THEN [statusCall EXCEPT ![o].cur.current_vod = v]
                          ELSE statusCall

\* ------------------------------------------------ POST /api/stream/start
\* A thread slot that a new thread can take: its last thread has returned
\* and nothing in the program refers to the publish process it spawned.  What
\* is remembered of the threads that have returned, and of the processes
\* they left behind, is dropped when a new thread is launched.
Reusable(w) ==
    /\ wk[w].pc \in {"idle", "done", "died"}
    /\ \A o \in Owners : active_streams[o] # w
    /\ \A v \in Workers : wk[v].fin # w

FreeWorker == CHOOSE w \in Workers : Reusable(w) /\ \A v \in Workers : Reusable(v) => w <= v

StartResp(o, urls, key, code, detail, w) ==
    [op |-> "start", owner |-> o, code |-> code, detail |-> detail,
     body |-> NoStatus, w |-> w, noUrls |-> (urls = << >>), noKey |-> (key = "")]

\* Lines 426-427: the request is refused only when a publish process is
\* registered for the owner and still running.
Admit(o) == ~StreamAlive(o)

\* Lines 420-427 without the test of vod_urls.
StartOutcomeNoUrlTest(o, urls, key) ==
    IF key = "" THEN "MissingStreamKey"
    ELSE IF ~Admit(o) THEN "AlreadyActive"
    ELSE "Started"

\* Lines 420-427: the tests of a start request, in the order of the code.
StartOutcome(o, urls, key) ==
    IF key = "" THEN "MissingStreamKey"
    ELSE IF urls = << >> THEN "EmptyVodList"
    ELSE IF ~Admit(o) THEN "AlreadyActive"
    ELSE "Started"

StartCode(outcome) ==
    CASE outcome = "Started" -> 200
      [] outcome = "AlreadyActive" -> 409
      [] OTHER -> 400

\* Lines 414-438.
StartRoute(o, urls, quality, key) ==
    IF StartOutcome(o, urls, key) # "Started"
    THEN /\ resp' = StartResp(o, urls, key, StartCode(StartOutcome(o, urls, key)),
                              StartOutcome(o, urls, key), NoWorker)
         /\ stdout' = NoLines
         /\ UNCHANGED << active_streams, user_stream_status, user_vod_queues, wk, pub, dec,
                         statusCall, twitch >>
    ELSE /\ \E w \in Workers : Reusable(w)
         /\ wk' = [w \in Workers |->
                      IF w = FreeWorker
                      THEN [IdleWorker EXCEPT !.pc = "clear", !.owner = o, !.urls = urls,
                                              !.quality = quality, !.key = key]
                      ELSE IF Reusable(w) THEN IdleWorker ELSE wk[w]]
         /\ pub' = [w \in Workers |->
                      IF Reusable(w) THEN "none" ELSE Polled(pub, active_streams[o])[w]]
         /\ dec' = [w \in Workers |-> IF Reusable(w) THEN "none" ELSE dec[w]]
         /\ resp' = StartResp(o, urls, key, 200, "Started", FreeWorker)
         /\ stdout' = << << o, "start requested" >> >>
         /\ UNCHANGED << active_streams, user_stream_status, user_vod_queues, statusCall, twitch >>

\* ------------------------------------------------- POST /api/stream/stop
StopResp(o, code, detail) ==
    [op |-> "stop", owner |-> o, code |-> code, detail |-> detail,
     body |-> NoStatus, w |-> NoWorker, noUrls |-> FALSE, noKey |-> FALSE]

\* Lines 447-448 answering success instead of 404.
StopAbsentOk(o) == StopResp(o, 200, "AlreadyInactive")

\* Lines 447-448: no registered publish process.
StopAbsent(o) == StopResp(o, 404, "NoActiveStream")

\* Lines 447-466.  SIGTERM goes to the publish process if it is still
\* running; terminate() does not raise for a child of this process, so the
\* handler of lines 460-463 is never entered.  The record "Parando..." of
\* line 451 is replaced at line 458 or 466 before the handler returns: no
\* other coroutine runs in between and no thread reads the record, so what
\* is stored is the final "Parado".
StopRoute(o) ==
    IF active_streams[o] = NoWorker
    THEN /\ resp' = StopAbsent(o)
         /\ stdout' = NoLines
         /\ UNCHANGED << active_streams, user_stream_status, user_vod_queues, wk, pub, dec,
                         statusCall, twitch >>
    ELSE LET p == active_streams[o] IN
         /\ active_streams' = [active_streams EXCEPT ![o] = NoWorker]
         /\ ReplaceStatus(o, Parado)
         /\ IF PollIsNone(pub[p])
            THEN /\ resp' = StopResp(o, 200, "SignalSent")
                 /\ pub' = Terminated(pub, p)
                 /\ stdout' = << << o, "stopping" >>, << o, "signal sent" >> >>
            ELSE /\ resp' = StopResp(o, 200, "NotRunning")
                 /\ pub' = Polled(pub, p)
                 /\ stdout' = << << o, "was not running" >> >>
         /\ wk' = [wk EXCEPT ![p].stopped = (wk[p].pc \notin {"idle", "done", "died"})]
         /\ UNCHANGED << user_vod_queues, dec, twitch >>

\* ------------------------------------------------ GET /api/stream_status
StatusResp(o, body) ==
    [op |-> "status", owner |-> o, code |-> 200, detail |-> "Status",
     body |-> body, w |-> NoWorker, noUrls |-> FALSE, noKey |-> FALSE]

\* Line 268: the stored dictionary, or a fresh default one.
StoredOrDefault(o) ==
    IF user_stream_status[o] = NoStatus THEN Parado ELSE user_stream_status[o]

\* Lines 275-277: a record that still says streaming is put back to stopped.
CorrectDead(cur) == IF cur.status = "Transmitindo" THEN Parado ELSE cur

\* Lines 289-292: the platform reports a live stream.
WithTwitch(cur, tw) ==
    IF tw = "live" THEN [status |-> "AoVivo", current_vod |-> "LiveTitle"] ELSE cur

\* Line 299 answering with the dictionary as it was read, not as corrected.
StatusBodyStale(read, final) == read

\* Line 299: the response is the dictionary after all the corrections.
StatusBody(read, final) == final

\* Lines 262-277 and, when the publish process is alive, 297-299.
StatusBegin(o) ==
    /\ ~statusCall[o].pending
    /\ IF StreamAlive(o)
       THEN LET final == [StoredOrDefault(o) EXCEPT !.status = "Transmitindo"] IN
            /\ user_stream_status' = [user_stream_status EXCEPT ![o] = final]
            /\ resp' = StatusResp(o, StatusBody(StoredOrDefault(o), final))
            /\ UNCHANGED << statusCall, pub >>
       ELSE LET cur == CorrectDead(StoredOrDefault(o)) IN
            /\ user_stream_status' =
                  IF user_stream_status[o] = NoStatus THEN user_stream_status
                  ELSE [user_stream_status EXCEPT ![o] = cur]
            /\ statusCall' = [statusCall EXCEPT ![o] =
                  [pending |-> TRUE, cur |-> cur,
                   aliased |-> user_stream_status[o] # NoStatus]]
            /\ pub' = Polled(pub, active_streams[o])
            /\ resp' = NoResp
    /\ stdout' = NoLines
    /\ UNCHANGED << active_streams, user_vod_queues, wk, dec, twitch >>

\* Lines 283-299: the platform answered; the dictionary is stored and returned.
StatusEnd(o) ==
    /\ statusCall[o].pending
    /\ LET final == WithTwitch(statusCall[o].cur, twitch[o]) IN
       /\ user_stream_status' = [user_stream_status EXCEPT ![o] = final]
       /\ resp' = StatusResp(o, StatusBody(statusCall[o].cur, final))
    /\ statusCall' = [statusCall EXCEPT ![o] = NoCall]
    /\ stdout' = NoLines
    /\ UNCHANGED << active_streams, user_vod_queues, wk, pub, dec, twitch >>

\* ------------------------------------------------------ stream_vods_thread
At(w, pc) == wk[w].pc = pc
Items(o) == user_vod_queues[o].items

\* Lines 310-314: the owner's queue is created, or emptied.
WClear(w) ==
    /\ At(w, "clear")
    /\ user_vod_queues' = [user_vod_queues EXCEPT ![wk[w].owner] =
                              [exists |-> TRUE, items |-> << >>]]
    /\ wk' = [wk EXCEPT ![w].pc = IF wk[w].urls = << >> THEN "check" ELSE "resolve"]
    /\ UNCHANGED statusCall
    /\ resp' = NoResp
    /\ stdout' = NoLines
    /\ UNCHANGED << active_streams, user_stream_status, pub, dec, twitch >>

\* Lines 317-334, one URL: resolve it and queue the stream URL if there is one.
WResolve(w) ==
    /\ At(w, "resolve")
    /\ LET o == wk[w].owner
           m == ResolveUrl(wk[w].urls[wk[w].idx], wk[w].quality)
       IN  /\ user_vod_queues' =
                 IF m = None THEN user_vod_queues
                 ELSE [user_vod_queues EXCEPT ![o].items = Append(@, m)]
           /\ UNCHANGED statusCall
           /\ stdout' = IF m # None THEN NoLines
                        ELSE << << o, "no stream for", wk[w].urls[wk[w].idx], wk[w].quality >> >>
    /\ wk' = [wk EXCEPT ![w].idx = @ + 1,
                        ![w].pc = IF wk[w].idx = Len(wk[w].urls) THEN "check" ELSE "resolve"]
    /\ resp' = NoResp
    /\ UNCHANGED << active_streams, user_stream_status, pub, dec, twitch >>

\* Lines 336-341: nothing was queued, the thread gives up.
WCheck(w) ==
    /\ At(w, "check")
    /\ LET o == wk[w].owner IN
       IF Items(o) = << >>
       THEN /\ ReplaceStatus(o, Parado)
            /\ active_streams' = [active_streams EXCEPT ![o] = NoWorker]
            /\ wk' = [wk EXCEPT ![w] = Ended(w, "done")]
            /\ stdout' = << << o, "no valid URL queued" >> >>
       ELSE /\ UNCHANGED statusCall
            /\ wk' = [wk EXCEPT ![w].pc = "announce"]
            /\ stdout' = NoLines
            /\ UNCHANGED << active_streams, user_stream_status >>
    /\ resp' = NoResp
    /\ UNCHANGED << user_vod_queues, pub, dec, twitch >>

\* Lines 343-344.
WAnnounce(w) ==
    /\ At(w, "announce")
    /\ ReplaceStatus(wk[w].owner, Iniciando)
    /\ wk' = [wk EXCEPT ![w].pc = "spawn"]
    /\ resp' = NoResp
    /\ stdout' = << << wk[w].owner, "starting publish process for" >> \o RtmpUrl(wk[w].key) >>
    /\ UNCHANGED << active_streams, user_vod_queues, pub, dec, twitch >>

\* Line 349: the argument list of the publish process, which the message of
\* its TimeoutExpired quotes.
PublishCommand(key) == << "ffmpeg -i - -c:v copy -c:a aac -f flv " >> \o RtmpUrl(key)

\* Lines 348-354: Popen of the publish process; outcome is "ok" or the
\* exception raised.
SpawnOutcomes == {"ok", "ToolNotFound", "InternalError"}

WSpawn(w, outcome) ==
    /\ At(w, "spawn")
    /\ IF outcome = "ok"
       THEN /\ pub' = [pub EXCEPT ![w] = "running"]
            /\ wk' = [wk EXCEPT ![w].pc = "register", ![w].spawns = @ + 1]
       ELSE /\ wk' = [wk EXCEPT ![w].pc = "except", ![w].exc = outcome]
            /\ pub' = pub
    /\ UNCHANGED statusCall
    /\ resp' = NoResp
    /\ stdout' = NoLines
    /\ UNCHANGED << active_streams, user_stream_status, user_vod_queues, dec, twitch >>

\* Line 355.
WRegister(w) ==
    /\ At(w, "register")
    /\ active_streams' = [active_streams EXCEPT ![wk[w].owner] = w]
    /\ wk' = [wk EXCEPT ![w].pc = "loop"]
    /\ UNCHANGED statusCall
    /\ resp' = NoResp
    /\ stdout' = NoLines
    /\ UNCHANGED << user_stream_status, user_vod_queues, pub, dec, twitch >>

\* Stdin of the publish process closed by the worker (line 388).
StdinClosed(pubs, w) ==
    IF pubs[w] = "running" THEN [pubs EXCEPT ![w] = "eof"] ELSE pubs

\* Line 362: the loop goes on while the queue has an item and the publish
\* process has not exited.
Continue(w) == Items(wk[w].owner) # << >> /\ PollIsNone(pub[w])

\* Line 362 and, when the loop ends, lines 387-388.
WLoop(w) ==
    /\ At(w, "loop")
    /\ IF Continue(w)
       THEN /\ wk' = [wk EXCEPT ![w].pc = "get"]
            /\ pub' = pub
       ELSE /\ wk' = [wk EXCEPT ![w].pc = "waitpub"]
            /\ pub' = StdinClosed(IF Items(wk[w].owner) # << >> THEN Polled(pub, w) ELSE pub, w)
    /\ UNCHANGED statusCall
    /\ resp' = NoResp
    /\ stdout' = NoLines
    /\ UNCHANGED << active_streams, user_stream_status, user_vod_queues, dec, twitch >>

\* Lines 363-365: Queue.get() blocks while the queue is empty.
WGet(w) ==
    /\ At(w, "get")
    /\ Items(wk[w].owner) # << >>
    /\ LET o == wk[w].owner
           vod == Head(Items(o))
       IN  /\ user_vod_queues' = [user_vod_queues EXCEPT ![o].items = Tail(@)]
           /\ MutateVod(o, vod)
           /\ stdout' = << << o, "relaying", vod >> >>
           /\ wk' = [wk EXCEPT ![w].pc = "decode", ![w].played = Append(@, vod)]
    /\ resp' = NoResp
    /\ UNCHANGED << active_streams, pub, dec, twitch >>

\* Lines 367-371: Popen of the decode process, which will emit `chunks`
\* chunks.  The executable is the one the publish process was started from,
\* so the spawn fails only for lack of resources.
DecodeOutcomes == {"ok", "InternalError"}

WDecode(w, outcome, chunks) ==
    /\ At(w, "decode")
    /\ IF outcome = "ok"
       THEN /\ dec' = [dec EXCEPT ![w] = "running"]
            /\ wk' = [wk EXCEPT ![w].pc = "copy", ![w].left = chunks]
       ELSE /\ chunks = 0
            /\ wk' = [wk EXCEPT ![w].pc = "except", ![w].exc = outcome]
            /\ dec' = dec
    /\ UNCHANGED statusCall
    /\ resp' = NoResp
    /\ stdout' = NoLines
    /\ UNCHANGED << active_streams, user_stream_status, user_vod_queues, pub, twitch >>

\* Lines 373-384, one round: read a chunk, write it to the publish process.
WCopy(w) ==
    /\ At(w, "copy")
    /\ IF wk[w].left = 0
       THEN wk' = [wk EXCEPT ![w].pc = "waitdec"]
       ELSE IF PipeOpen(pub[w])
       THEN wk' = [wk EXCEPT ![w].left = @ - 1]
       ELSE wk' = [wk EXCEPT ![w].left = @ - 1, ![w].pc = "waitdec",
                             ![w].failedAt = IF @ = 0 THEN Len(wk[w].played) ELSE @]
    /\ UNCHANGED statusCall
    /\ resp' = NoResp
    /\ stdout' = IF wk[w].left > 0 /\ ~PipeOpen(pub[w])
                  THEN << << wk[w].owner, "publish process input is closed" >> >>
                  ELSE NoLines
    /\ UNCHANGED << active_streams, user_stream_status, user_vod_queues, pub, dec, twitch >>

\* Line 385: decode_proc.wait().  Its output pipe is no longer read: the
\* process exits if what it still has to write fits the pipe (fits), and
\* blocks for ever otherwise.
WWaitDec(w, fits) ==
    /\ At(w, "waitdec")
    /\ wk[w].left = 0 => fits
    /\ IF fits
       THEN /\ dec' = [dec EXCEPT ![w] = "none"]
            /\ wk' = [wk EXCEPT ![w].pc = "loop", ![w].left = 0]
       ELSE /\ wk' = [wk EXCEPT ![w].pc = "hung"]
            /\ dec' = dec
    /\ UNCHANGED statusCall
    /\ resp' = NoResp
    /\ stdout' = NoLines
    /\ UNCHANGED << active_streams, user_stream_status, user_vod_queues, pub, twitch >>

\* Line 390: ffmpeg_process.wait() returns once the process has exited.
WWaitPub(w) ==
    /\ At(w, "waitpub")
    /\ pub[w] \in {"exited", "reaped"}
    /\ pub' = [pub EXCEPT ![w] = "reaped"]
    /\ wk' = [wk EXCEPT ![w].pc = "finally"]
    /\ UNCHANGED statusCall
    /\ resp' = NoResp
    /\ stdout' = << << wk[w].owner, "publish process exited" >> >>
    /\ UNCHANGED << active_streams, user_stream_status, user_vod_queues, dec, twitch >>

\* Lines 393-399: both except clauses store an error record.
WExcept(w) ==
    /\ At(w, "except")
    /\ ReplaceStatus(wk[w].owner, Erro(wk[w].exc))
    /\ wk' = [wk EXCEPT ![w].pc = "finally"]
    /\ resp' = NoResp
    /\ stdout' = << << wk[w].owner, "error", wk[w].exc >> >>
    /\ UNCHANGED << active_streams, user_vod_queues, pub, dec, twitch >>

\* Lines 401-404: whatever handle is registered for the owner is popped and,
\* if still running, sent SIGTERM.
WFinally(w) ==
    /\ At(w, "finally")
    /\ LET o == wk[w].owner
           p == active_streams[o]
       IN  /\ active_streams' = [active_streams EXCEPT ![o] = NoWorker]
           /\ IF p # NoWorker /\ PollIsNone(pub[p])
              THEN /\ pub' = Terminated(pub, p)
                   /\ wk' = [wk EXCEPT ![w].pc = "finwait", ![w].fin = p]
                   /\ stdout' = NoLines
              ELSE /\ pub' = Polled(pub, p)
                   /\ wk' = [wk EXCEPT ![w].pc = "finstatus"]
                   /\ stdout' = IF p = NoWorker THEN NoLines
                                ELSE << << o, "publish process cleaned" >> >>
           /\ UNCHANGED statusCall
    /\ resp' = NoResp
    /\ UNCHANGED << user_stream_status, user_vod_queues, dec, twitch >>

\* Line 405: proc.wait(timeout=5) returns, or raises TimeoutExpired out of
\* the finally block, which ends the thread.
WFinWait(w, timeout) ==
    /\ At(w, "finwait")
    /\ LET p == wk[w].fin IN
       IF timeout
       THEN /\ PollIsNone(pub[p])
            /\ wk' = [wk EXCEPT ![w] = Ended(w, "died")]
            /\ pub' = pub
            /\ stdout' = << << "TimeoutExpired" >> \o PublishCommand(wk[p].key) >>
       ELSE /\ pub[p] \in {"exited", "reaped"}
            /\ pub' = [pub EXCEPT ![p] = "reaped"]
            /\ wk' = [wk EXCEPT ![w].pc = "finstatus"]
            /\ stdout' = << << wk[w].owner, "publish process cleaned" >> >>
    /\ UNCHANGED statusCall
    /\ resp' = NoResp
    /\ UNCHANGED << active_streams, user_stream_status, user_vod_queues, dec, twitch >>

\* Lines 408-409.
WFinStatus(w) ==
    /\ At(w, "finstatus")
    /\ ReplaceStatus(wk[w].owner, Parado)
    /\ wk' = [wk EXCEPT ![w] = Ended(w, "done")]
    /\ resp' = NoResp
    /\ stdout' = << << wk[w].owner, "thread ended" >> >>
    /\ UNCHANGED << active_streams, user_vod_queues, pub, dec, twitch >>

\* ------------------------------------------------------------ environment
\* The publish process fails on its own.
PubCrash(w) ==
    /\ pub[w] = "running"
    /\ pub' = [pub EXCEPT ![w] = "closing"]
    /\ resp' = NoResp
    /\ stdout' = NoLines
    /\ UNCHANGED << active_streams, user_stream_status, user_vod_queues, wk, dec, statusCall, twitch >>

\* The publish process acts on SIGTERM or on end of input.
PubShutdown(w) ==
    /\ pub[w] \in {"term", "eof"}
    /\ pub' = [pub EXCEPT ![w] = "closing"]
    /\ resp' = NoResp
    /\ stdout' = NoLines
    /\ UNCHANGED << active_streams, user_stream_status, user_vod_queues, wk, dec, statusCall, twitch >>

\* The publish process becomes waitable.
PubExit(w) ==
    /\ pub[w] = "closing"
    /\ pub' = [pub EXCEPT ![w] = "exited"]
    /\ resp' = NoResp
    /\ stdout' = NoLines
    /\ UNCHANGED << active_streams, user_stream_status, user_vod_queues, wk, dec, statusCall, twitch >>

\* What the platform's streams endpoint answers: "live" for a live stream,
\* "offline" for none; a failed request (lines 293-295) leaves the record as
\* "offline" does.
TwitchAnswers == {"offline", "live"}

TwitchChange(o, v) ==
    /\ v # twitch[o]
    /\ twitch' = [twitch EXCEPT ![o] = v]
    /\ resp' = NoResp
    /\ stdout' = NoLines
    /\ UNCHANGED << active_streams, user_stream_status, user_vod_queues, wk, pub, dec, statusCall >>

\* ---------------------------------------------------------- specification
WorkerStep(w) ==
    \/ WClear(w)
    \/ WResolve(w)
    \/ WCheck(w)
    \/ WAnnounce(w)
    \/ \E outcome \in SpawnOutcomes : WSpawn(w, outcome)
    \/ WRegister(w)
    \/ WLoop(w)
    \/ WGet(w)
    \/ \E outcome \in DecodeOutcomes, chunks \in 0..MaxChunks : WDecode(w, outcome, chunks)
    \/ WCopy(w)
    \/ \E fits \in BOOLEAN : WWaitDec(w, fits)
    \/ WWaitPub(w)
    \/ WExcept(w)
    \/ WFinally(w)
    \/ \E timeout \in BOOLEAN : WFinWait(w, timeout)
    \/ WFinStatus(w)

\* A worker thread that has been launched and has not returned.
Live(w) == wk[w].pc \notin {"idle", "done", "died"}
Quiescent == \A w \in Workers : ~Live(w)

\* start_stream_route reaches line 429.
Admitted(o, urls, key) == StartOutcome(o, urls, key) = "Started"

\* The lists worth trying with a key: a request that is refused is refused
\* the same way whatever its non-empty list, so one such list stands for all.
ListsFor(o, key, lists) ==
    IF \E l \in lists : Admitted(o, l, key) THEN lists \cup {<< >>}
    ELSE {<< >>, CHOOSE l \in lists : l # << >>}

\* The engine driven by a client that starts a run only after the previous
\* worker has returned: requests, one worker at a time with every failure of
\* its tools, no status polls.
NextSolo ==
    \/ \E o \in Owners, quality \in RunQualities, key \in StreamKeys :
           \E urls \in ListsFor(o, key, UrlLists) :
               StartRoute(o, urls, quality, key) /\ (Admitted(o, urls, key) => Quiescent)
    \/ \E o \in Owners : StopRoute(o)
    \/ \E w \in Workers : WorkerStep(w)
    \/ \E w \in Workers : PubCrash(w)
    \/ \E w \in Workers : PubShutdown(w)
    \/ \E w \in Workers : PubExit(w)

SpecSolo == Init /\ [][NextSolo]_vars

\* Requests that overlap: a start request is admitted whenever the code
\* admits it, so several workers of one owner run at once, until a first
\* worker has returned.  The tools do not fail here: every process spawns,
\* and exits only on SIGTERM or end of input.
RaceUrlLists == {<< "A" >>, << "B" >>}
NoneEnded == \A w \in Workers : wk[w].pc \notin {"done", "died"}

NextRace ==
    \/ \E o \in Owners, key \in StreamKeys :
           \E urls \in ListsFor(o, key, RaceUrlLists) :
               StartRoute(o, urls, "720p", key) /\ (Admitted(o, urls, key) => NoneEnded)
    \/ \E o \in Owners : StopRoute(o)
    \/ \E w \in Workers :
           \/ WClear(w)
           \/ WResolve(w)
           \/ WCheck(w)
           \/ WAnnounce(w)
           \/ WSpawn(w, "ok")
           \/ WRegister(w)
           \/ WLoop(w)
           \/ WGet(w)
           \/ WDecode(w, "ok", 1)
           \/ WCopy(w)
           \/ WWaitDec(w, TRUE)
           \/ WWaitPub(w)
           \/ WFinally(w)
           \/ \E timeout \in BOOLEAN : WFinWait(w, timeout)
           \/ WFinStatus(w)
    \/ \E w \in Workers : PubShutdown(w)
    \/ \E w \in Workers : PubExit(w)

SpecRace == Init /\ [][NextRace]_vars

\* One run at a time over every kind of page and several qualities, the
\* tools not failing and no stop request.
ResolvePages == {"A", "B", "C", "D", "E", "G", "H"}
ResolveQualities == {"720p", "480p", "best"}
ResolveUrlLists == {<< u >> : u \in ResolvePages} \cup {<< "A", "B" >>, << "C", "D" >>}

NextResolve ==
    \/ \E o \in Owners, quality \in ResolveQualities, key \in StreamKeys :
           \E urls \in ListsFor(o, key, ResolveUrlLists) :
               StartRoute(o, urls, quality, key) /\ (Admitted(o, urls, key) => Quiescent)
    \/ \E w \in Workers :
           \/ WClear(w)
           \/ WResolve(w)
           \/ WCheck(w)
           \/ WAnnounce(w)
           \/ WSpawn(w, "ok")
           \/ WRegister(w)
           \/ WLoop(w)
           \/ WGet(w)
           \/ WDecode(w, "ok", 1)
           \/ WCopy(w)
           \/ WWaitDec(w, TRUE)
           \/ WWaitPub(w)
           \/ WFinally(w)
           \/ WFinStatus(w)
    \/ \E w \in Workers : PubShutdown(w)
    \/ \E w \in Workers : PubExit(w)

SpecResolve == Init /\ [][NextResolve]_vars

\* Status polls against one run at a time.
PollUrlLists == {<< "A" >>, << "B" >>}

NextPoll ==
    \/ \E o \in Owners, key \in StreamKeys :
           \E urls \in ListsFor(o, key, PollUrlLists) :
               StartRoute(o, urls, "720p", key) /\ (Admitted(o, urls, key) => Quiescent)
    \/ \E o \in Owners : StopRoute(o)
    \/ \E o \in Owners : StatusBegin(o)
    \/ \E o \in Owners : StatusEnd(o)
    \/ \E w \in Workers : WorkerStep(w)
    \/ \E w \in Workers : PubCrash(w)
    \/ \E w \in Workers : PubShutdown(w)
    \/ \E w \in Workers : PubExit(w)
    \/ \E o \in Owners, v \in TwitchAnswers : TwitchChange(o, v)

SpecPoll == Init /\ [][NextPoll]_vars


\* ------------------------------------------------------------- properties
OwnerWorkers(o) == {w \in Workers : Live(w) /\ wk[w].owner = o}
Registry == << active_streams, user_stream_status, user_vod_queues >>

\* C1: for every owner, at most one worker thread is resolving, streaming or
\* cleaning up at any time.
C1_AtMostOneActiveRun == \A o \in Owners : Cardinality(OwnerWorkers(o)) <= 1

\* C2: a start request with a key and a list, made while a worker of the owner
\* is still running, is answered AlreadyActive and launches nothing.
C2_StartRefusedWhileActive ==
    (/\ resp.op = "start" /\ ~resp.noKey /\ ~resp.noUrls
     /\ \E w \in Workers \ {resp.w} : Live(w) /\ wk[w].owner = resp.owner)
    => (resp.code = 409 /\ resp.w = NoWorker)

\* C3 as stated: a start request with an empty list is answered EmptyVodList.
C3_EmptyListIsEmptyVodList ==
    (resp.op = "start" /\ resp.noUrls) => resp.detail = "EmptyVodList"

\* C3: a start request with an empty list is refused with status 400, as
\* MissingStreamKey when the key is empty too and as EmptyVodList otherwise;
\* it launches no worker and changes neither the registry nor any process.
C3_EmptyListRejected ==
    [][(resp'.op = "start" /\ resp'.noUrls)
       => /\ resp'.code = 400
          /\ resp'.detail = (IF resp'.noKey THEN "MissingStreamKey" ELSE "EmptyVodList")
          /\ resp'.w = NoWorker
          /\ UNCHANGED << Registry, wk, pub, dec >>]_vars

C3_Witness ==
    /\ resp.op = "start" /\ resp.noUrls /\ ~resp.noKey /\ resp.detail = "EmptyVodList"
    /\ \E w \in Workers : wk[w].pc = "copy" /\ StreamAlive(wk[w].owner)

\* C4: a worker none of whose URLs resolved ends with the owner's status
\* "Erro" and without having spawned a publish process.
C4_NoValidMediaEndsInError ==
    [][\A w \in Workers :
          (/\ Live(w) /\ wk'[w].pc \in {"done", "died"}
           /\ ResolveAll(wk[w].urls, wk[w].quality) = << >>)
          => (/\ user_stream_status'[wk[w].owner].status = "Erro"
              /\ pub'[w] = "none")]_vars

\* C5: what a worker has set as current_vod, in order, is a prefix of the
\* stream URLs its own list resolves to.
C5_PlayedInListOrder ==
    \A w \in Workers :
        Live(w) => IsPrefix(wk[w].played, ResolveAll(wk[w].urls, wk[w].quality))

\* C6: after a write to the publish process failed on an item, the worker
\* takes no further item and still gets to wait for the publish process.
C6_NoItemAfterWriteFailure ==
    \A w \in Workers :
        wk[w].failedAt > 0 => (Len(wk[w].played) = wk[w].failedAt /\ wk[w].pc # "hung")

\* C7: a worker that saw a write to the publish process fail ends with the
\* owner's status "Erro" and its decode process waited for.
C7_PublishDeathEndsInError ==
    [][\A w \in Workers :
          (Live(w) /\ wk[w].failedAt > 0 /\ wk'[w].pc \in {"done", "died"})
          => (/\ user_stream_status'[wk[w].owner].status = "Erro"
              /\ dec'[w] = "none")]_vars

\* C8 as stated: a stop request for an owner without a registered publish
\* process is answered with success and changes nothing.
C8_StopWithoutHandleSucceeds ==
    [][\A o \in Owners :
          (active_streams[o] = NoWorker /\ resp'.op = "stop" /\ resp'.owner = o)
          => (resp'.code = 200 /\ UNCHANGED << Registry, wk, pub, dec >>)]_vars

\* C8: a stop request for an owner without a registered publish process is
\* refused with status 404 (NoActiveStream) and changes nothing.
C8_StopWithoutHandleRefused ==
    [][\A o \in Owners :
          (active_streams[o] = NoWorker /\ resp'.op = "stop" /\ resp'.owner = o)
          => (/\ resp'.code = 404 /\ resp'.detail = "NoActiveStream"
              /\ UNCHANGED << Registry, wk, pub, dec >>)]_vars

C8_Witness ==
    /\ resp.op = "stop" /\ resp.code = 404
    /\ \E w \in Workers : wk[w].pc = "resolve" /\ wk[w].owner = resp.owner

\* C9: once a stop request has taken a worker's publish handle, the owner's
\* status is "Parado" for as long as that worker runs.
C9_StoppedStaysStopped ==
    \A w \in Workers :
        (Live(w) /\ wk[w].stopped) => user_stream_status[wk[w].owner].status = "Parado"

\* What a status poll run now, without interruption, would answer.
StatusNow(o) ==
    IF StreamAlive(o)
    THEN StatusBody(StoredOrDefault(o), [StoredOrDefault(o) EXCEPT !.status = "Transmitindo"])
    ELSE StatusBody(CorrectDead(StoredOrDefault(o)),
                    WithTwitch(CorrectDead(StoredOrDefault(o)), twitch[o]))

\* The suspended poll is as a poll begun in this very state would be.
FreshCall(o) ==
    /\ statusCall[o].pending
    /\ ~StreamAlive(o)
    /\ statusCall[o].cur = CorrectDead(StoredOrDefault(o))
    /\ statusCall[o].aliased = (user_stream_status[o] # NoStatus)

\* C10: when a status poll that nothing interrupted returns, a second poll
\* made at once would return the same snapshot.
C10_StatusIdempotent ==
    [][\A o \in Owners :
          (\/ StatusBegin(o) /\ StreamAlive(o)
           \/ StatusEnd(o) /\ FreshCall(o))
          => resp'.body = StatusNow(o)']_vars

C10_Witness ==
    /\ resp.op = "status" /\ resp.body.status = "Parado"
    /\ resp.body = StatusNow(resp.owner)
    /\ \E w \in Workers : wk[w].pc = "spawn" /\ wk[w].owner = resp.owner

\* C11: a status poll leaves the registry as it was: the publish-handle map,
\* the queue, and the owner's status record (an absent record counting as
\* the default one the poll reads for it).
C11_StatusIsPureRead ==
    [][\A o \in Owners :
          (StatusBegin(o) \/ StatusEnd(o))
          => /\ UNCHANGED << active_streams, user_vod_queues >>
             /\ StoredOrDefault(o)' = StoredOrDefault(o)]_vars

\* C12: an owner has a registered publish process exactly when the stored
\* status is "Transmitindo" (Streaming).  The Stopping status "Parando..."
\* is stored at line 451 only after the handle was popped at line 450, and
\* is replaced before the stop handler returns.
C12_HandleIffStreaming ==
    \A o \in Owners :
        (active_streams[o] # NoWorker) <=> (user_stream_status[o].status = "Transmitindo")

\* C13: once no worker of the owner runs any more and the stored status is
\* absent (Idle), "Parado" (Stopped) or "Erro", the owner's queue is empty.
C13_QueueEmptyWhenAtRest ==
    \A o \in Owners :
        (/\ OwnerWorkers(o) = {}
         /\ user_stream_status[o].status \in {"Absent", "Parado", "Erro"})
        => Items(o) = << >>

\* The stream keys that are secrets.
Secrets == StreamKeys \ {""}

\* C14: no printed line and no status response contains a stream key.
C14_KeyNeverShown ==
    /\ \A i \in DOMAIN stdout : \A j \in DOMAIN stdout[i] : stdout[i][j] \notin Secrets
    /\ resp.op = "status" =>
          (resp.body.status \notin Secrets /\ resp.body.current_vod \notin Secrets)

\* The labels of the variants the resolver finds on a page.
Variants(url) == IF Raises(url) THEN {} ELSE DOMAIN Streams(url)

\* What one pass of the resolve loop appended to the owner's queue.
Appended(o) == SubSeq(Items(o)', Len(Items(o)) + 1, Len(Items(o)'))

\* C15: resolving a URL queues the variant labelled with the quality asked
\* for when the page has it, otherwise the variant labelled "best" when the
\* page has that, otherwise nothing; it never queues another variant.
C15_ResolvePolicy ==
    [][\A w \in Workers :
          WResolve(w) =>
             LET o == wk[w].owner
                 u == wk[w].urls[wk[w].idx]
                 q == wk[w].quality
             IN  /\ IsPrefix(Items(o), Items(o)')
                 /\ q \in Variants(u) => Appended(o) = << Streams(u)[q] >>
                 /\ (q \notin Variants(u) /\ "best" \in Variants(u))
                       => Appended(o) = << Streams(u)["best"] >>
                 /\ (q \notin Variants(u) /\ "best" \notin Variants(u))
                       => Appended(o) = << >>]_vars

C15_Witness ==
    \E w \in Workers :
        /\ wk[w].pc = "check" /\ wk[w].urls = << "G" >> /\ wk[w].quality = "720p"
        /\ Items(wk[w].owner) = << "G_best" >>

\* The positions of a worker between the spawn of its publish process and
\* the end of its relay loop.
Relaying == {"register", "loop", "get", "decode", "copy", "waitdec", "hung", "waitpub"}

\* C16: a worker at least one of whose URLs resolves does not give up after
\* the resolve loop, and spawns one publish process, never a second one.
C16_OneResolvedUrlIsEnough ==
    [][\A w \in Workers :
          (Live(w) /\ ResolveAll(wk[w].urls, wk[w].quality) # << >>)
          => /\ At(w, "check") => wk'[w].pc \in {"check", "announce"}
             /\ wk'[w].spawns <= 1
             /\ wk'[w].pc \in Relaying => wk'[w].spawns = 1]_vars

\* The decode processes of an owner's workers that are spawned and not yet
\* waited for.
OwnerDecodes(o) == {w \in Workers : wk[w].owner = o /\ dec[w] = "running"}

\* C17: at most one decode process of an owner is alive at any time.
C17_OneDecodeAtATime == \A o \in Owners : Cardinality(OwnerDecodes(o)) <= 1

\* C18: when a worker returns or is ended by an exception, the publish
\* process it spawned, if any, has been waited for, and so has its decode
\* process.
C18_AllProcessesWaitedFor ==
    [][\A w \in Workers :
          (Live(w) /\ wk'[w].pc \in {"done", "died"})
          => (pub'[w] \in {"none", "reaped"} /\ dec'[w] = "none")]_vars

\* C19: a worker in which a spawn raised an exception leaves the owner's
\* status "Erro", with the diagnostic, when it ends.
C19_ExceptionEndsInError ==
    [][\A w \in Workers :
          (Live(w) /\ wk[w].exc # None /\ wk'[w].pc \in {"done", "died"})
          => user_stream_status'[wk[w].owner] = Erro(wk[w].exc)]_vars

\* C20: no status poll, made from start to end after a stop request, answers
\* "Parado" while the publish process that the request signalled has not
\* exited.
C20_StoppedOnlyAfterExit ==
    [][\A o \in Owners :
          (StatusEnd(o) /\ FreshCall(o) /\ resp'.body.status = "Parado")
          => ~ \E w \in Workers :
                  wk[w].owner = o /\ wk[w].stopped /\ PollIsNone(pub[w])]_vars

\* C21: the cleanup of a worker whose publish handle a stop request took
\* removes from active_streams, and signals, no publish process but the one
\* this worker spawned.
C21_CleanupTakesOwnHandle ==
    [][\A w \in Workers :
          (WFinally(w) /\ wk[w].stopped)
          => /\ active_streams[wk[w].owner] \in {NoWorker, w}
             /\ \A p \in Workers \ {w} : pub'[p] = pub[p]]_vars

\* C22: a stored record whose status is "Parado" has "Nenhum" as its
\* current_vod.
C22_StoppedPlaysNothing ==
    \A o \in Owners :
        user_stream_status[o].status = "Parado" => user_stream_status[o].current_vod = "Nenhum"

====
